---- MODULE Spec2Model ----
(***************************************************************************)
(* Byte-level BPE tokenizer of mindformers/models/clip/clip_tokenizer.py.  *)
(*                                                                         *)
(* A character is its code point (a natural number); a string is a         *)
(* sequence of code points; a symbol is a string; a word is a sequence of  *)
(* symbols.  Python dicts are functions whose DOMAIN is the key set.       *)
(*                                                                         *)
(* The byte tables are the dict bytes_to_unicode() returns, which is the   *)
(* same for every tokenizer.  The vocabulary is held by the merge rules    *)
(* the constructor read: encoder and decoder are the dicts built from      *)
(* them.                                                                   *)
(***************************************************************************)
EXTENDS Integers, Sequences, FiniteSets, TLC

VARIABLES
    merges,         \* TempTokenizer.__init__: the rules read, which fix the vocabulary
    bpe_ranks,      \* TempTokenizer.bpe_ranks    : merge rule -> rank
    flag_dict,      \* TempTokenizer.flag_dict    : token -> merged string (the cache)
    pc,             \* position of the caller inside tokenize_alg: "idle" | "loop"
    input_tk,       \* tokenize_alg local: the token being processed
    word,           \* tokenize_alg local: the current tuple of symbols
    pairs,          \* tokenize_alg local: the set of adjacent pairs of word
    bigram,         \* tokenize_alg local: the pair selected in the last iteration
    prev,           \* the word before the last merge pass (word, before line 135)
    iters,          \* number of merge passes done by the running call
    ret,            \* outcome of the last finished call
    first_ret,      \* for each token, what the first tokenize_alg call on it returned
    calls,          \* number of calls started so far
    threads         \* for each concurrent caller of tokenize_alg, where it is in its call

vars == <<merges, bpe_ranks, flag_dict,
          pc, input_tk, word, pairs, bigram, prev, iters, ret, first_ret, calls,
          threads>>

tables == <<merges, bpe_ranks>>
locals == <<input_tk, word, pairs, bigram, prev, iters>>

-----------------------------------------------------------------------------
(* Bounds of the model.                                                    *)

\* tokenize_alg is called on every token of at most MaxLen characters of Alphabet
MaxLen == 2
\* number of tokenize_alg calls made on one tokenizer instance
MaxCalls == 2
\* number of tokenize / encode / _convert_tokens_to_ids / decode calls made on one
\* tokenizer instance
MaxApiCalls == 3
\* number of callers that run tokenize_alg concurrently on one tokenizer instance
NumThreads == 2

-----------------------------------------------------------------------------
(* Strings.                                                                *)

Min(a, b) == IF a <= b THEN a ELSE b
Max(a, b) == IF a >= b THEN a ELSE b

\* list(range(lo, hi + 1))
RangeSeq(lo, hi) == [i \in 1..(hi - lo + 1) |-> lo + i - 1]

\* the elements of a list
Elems(s) == {s[i] : i \in 1..Len(s)}

\* ''.join(parts)
RECURSIVE Concat(_)
Concat(parts) ==
    IF parts = <<>> THEN <<>> ELSE Head(parts) \o Concat(Tail(parts))

\* sep.join(parts)
RECURSIVE Join(_, _)
Join(parts, sep) ==
    IF parts = <<>> THEN <<>>
    ELSE IF Len(parts) = 1 THEN parts[1]
    ELSE parts[1] \o sep \o Join(Tail(parts), sep)

\* s.split(c) for a one-character separator c: cut at every occurrence of c
Split(s, c) ==
    LET cuts == {0} \cup {i \in 1..Len(s) : s[i] = c} \cup {Len(s) + 1}
        cutAt(k) == CHOOSE i \in cuts : Cardinality({j \in cuts : j < i}) = k
    IN  [k \in 1..(Cardinality(cuts) - 1) |->
            SubSeq(s, cutAt(k - 1) + 1, cutAt(k) - 1)]

\* '</w>'
EndOfWord == <<60, 47, 119, 62>>
\* ' '
Space == <<32>>
\* '<|startoftext|>'
StartOfText == <<60, 124, 115, 116, 97, 114, 116, 111, 102, 116, 101, 120, 116, 124, 62>>
\* '<|endoftext|>'
EndOfText == <<60, 124, 101, 110, 100, 111, 102, 116, 101, 120, 116, 124, 62>>

\* k in dict(zip(keys, vals))
DictHas(keys, k) == \E i \in 1..Len(keys) : keys[i] = k

\* dict(zip(keys, vals))[k]: a later occurrence of a key overwrites an earlier one
DictGet(keys, vals, k) ==
    vals[CHOOSE i \in 1..Len(keys) :
            keys[i] = k /\ \A j \in (i + 1)..Len(keys) : keys[j] # k]

\* dict(zip(keys, vals)), for lists of one length
DictZip(keys, vals) ==
    [k \in Elems(keys) |-> DictGet(keys, vals, k)]

\* {v: k for k, v in d.items()}: items in insertion order, a later one overwrites
InvertDict(keys, d) ==
    DictZip([i \in 1..Len(keys) |-> d[keys[i]]], keys)

-----------------------------------------------------------------------------
(* bytes_to_unicode                                                        *)

\* the three printable ranges, in the order the list is built
PrintableBytesFromSpace ==
    RangeSeq(32, 126) \o RangeSeq(161, 172) \o RangeSeq(174, 255)
PrintableBytesNoGap == RangeSeq(33, 126) \o RangeSeq(161, 255)
PrintableBytes ==
    RangeSeq(33, 126) \o RangeSeq(161, 172) \o RangeSeq(174, 255)

\* the items of range(2**8) the loop appends: those not in the list, each met
\* once and in increasing order, so none is in the list because of the loop
AppendedBytes == {item \in 0..255 : item \notin Elems(PrintableBytes)}

\* the value of num when the loop reaches item: the items appended before it
NumAt(item) == Cardinality({b \in AppendedBytes : b < item})

\* the code point line 62 appends for the value num: 2**8+num
OutputCodeOffByOne(num) == 255 + num
OutputCode(num) == 256 + num

\* input_bt and output_cd when the loop over range(2**8) has ended
BtuLists ==
    LET appended == [n \in 1..Cardinality(AppendedBytes) |->
                        CHOOSE item \in AppendedBytes : NumAt(item) = n - 1]
    IN  [input_bt |-> PrintableBytes \o appended,
         output_cd |-> PrintableBytes
                       \o [n \in 1..Len(appended) |-> OutputCode(NumAt(appended[n]))]]

\* the dict returned by bytes_to_unicode()
BytesToUnicode == DictZip(BtuLists.input_bt, BtuLists.output_cd)

\* list(bytes_to_unicode().values()), each value a one-character string
BytesToUnicodeValues ==
    [i \in 1..Len(BtuLists.input_bt) |-> <<BytesToUnicode[BtuLists.input_bt[i]]>>]

\* self.byte_encoder
byte_encoder == BytesToUnicode

\* self.byte_decoder
byte_decoder == InvertDict(BtuLists.input_bt, BytesToUnicode)

-----------------------------------------------------------------------------
(* TempTokenizer.__init__                                                  *)

\* merges[1:49152-256-2+1] on the list of lines of the merge file; a line is
\* held as the tuple merge.split() makes of it
MergeSlice(lines) ==
    SubSeq(lines, 2, Min(Len(lines), 49152 - 256 - 2 + 1))

\* vocab after line 86: the byte characters, then each of them with '</w>'
BaseVocab ==
    BytesToUnicodeValues
    \o [i \in 1..Len(BytesToUnicodeValues) |-> BytesToUnicodeValues[i] \o EndOfWord]

\* the vocab list after line 94
BuildVocabNoMerges(rules) ==
    BaseVocab \o <<StartOfText, EndOfText>>
BuildVocab(rules) ==
    BaseVocab
    \o [i \in 1..Len(rules) |-> Concat(rules[i])]
    \o <<StartOfText, EndOfText>>

\* range(len(keys))
RangeLen(keys) == [i \in 1..Len(keys) |-> i - 1]

\* self.bpe_ranks
BuildRanks(rules) == DictZip(rules, RangeLen(rules))

\* self.encoder
BuildEncoder(rules) == DictZip(BuildVocab(rules), RangeLen(BuildVocab(rules)))

\* self.decoder
BuildDecoder(rules) == InvertDict(BuildVocab(rules), BuildEncoder(rules))

\* self.flag_dict
InitFlagDictEmpty == <<>>
InitFlagDict ==
    [t \in {StartOfText, EndOfText} |-> t]

\* the vocab list of this tokenizer
vocab == BuildVocab(merges)

\* the dicts of this tokenizer
encoder == BuildEncoder(merges)
decoder == BuildDecoder(merges)

\* dict(zip(vocab, range(len(vocab)))) cut after the entries of line 86, which are
\* the same for every tokenizer
BaseEncoder == DictZip(BaseVocab, RangeLen(BaseVocab))

\* what lines 92-94 add to vocab
AddedVocab == SubSeq(vocab, Len(BaseVocab) + 1, Len(vocab))

\* s in self.encoder
InEncoder(s) == s \in DOMAIN BaseEncoder \/ DictHas(AddedVocab, s)

\* self.encoder[s]: the last position of s in vocab, which is among the added
\* entries when s is one of them
EncoderAt(s) ==
    IF DictHas(AddedVocab, s)
    THEN Len(BaseVocab) + DictGet(AddedVocab, RangeLen(AddedVocab), s)
    ELSE BaseEncoder[s]

\* n in self.decoder: n is the id the encoder kept for some symbol
InDecoder(n) ==
    /\ n \in 0..(Len(vocab) - 1)
    /\ EncoderAt(vocab[n + 1]) = n

\* self.decoder[n]
DecoderAt(n) == vocab[n + 1]

-----------------------------------------------------------------------------
(* Merge files the tokenizer is built from: a header line, then the rules. *)

\* '#version: 0.2'.split()
Header == <<<<35, 118, 101, 114, 115, 105, 111, 110, 58>>, <<48, 46, 50>>>>

ca == <<97>>
cb == <<98>>
cl == <<108>>
co == <<111>>
cw == <<119>>

FileLoW == <<Header, <<cl, co>>, <<cl \o co, cw>>>>
FileLoWEnd == <<Header, <<cl, co>>, <<cl \o co, cw \o EndOfWord>>>>
FileAB == <<Header, <<ca, cb>>>>
FileABEnd == <<Header, <<ca, cb \o EndOfWord>>, <<ca, ca>>>>
FileAA == <<Header, <<ca, ca>>, <<ca \o ca, ca \o EndOfWord>>>>
FileBA == <<Header, <<cb, ca>>, <<ca, cb \o ca>>, <<cb, cb \o EndOfWord>>>>
FileNone == <<Header>>
\* a file that holds one rule on two lines
FileDup == <<Header, <<ca, cb>>, <<ca, ca>>, <<ca, cb>>>>
\* a file with lines that are no pairs: three symbols, one symbol, an empty line
FileOdd == <<Header, <<ca, cb, ca>>, <<cb>>, <<cb, ca \o EndOfWord>>, <<>>>>

\* a file with more rule lines than line 89 takes: 'a b' and 'a b</w>' in turn
NumRules == 49000
FileBig ==
    <<Header>>
    \o [i \in 1..NumRules |-> IF i % 2 = 1 THEN <<ca, cb>> ELSE <<ca, cb \o EndOfWord>>]

BpeFiles ==
    {FileLoW, FileLoWEnd, FileAB, FileABEnd, FileAA, FileBA, FileNone, FileDup, FileOdd}

\* tokens handed to tokenize_alg: every short token, and the longer ones of the
\* scenarios
Alphabet == {97, 98}
ScenarioTokens ==
    { cl \o co \o cw, ca \o ca \o ca, ca \o ca \o cb, ca \o cb \o ca,
      ca \o ca \o ca \o ca, StartOfText, EndOfText }
Tokens ==
    UNION {[1..n -> Alphabet] : n \in 0..MaxLen} \cup ScenarioTokens

-----------------------------------------------------------------------------
(* get_pairs and the merge loop of tokenize_alg                            *)

\* get_pairs(input_wd)
get_pairs(input_wd) ==
    {<<input_wd[i], input_wd[i + 1]>> : i \in 1..(Len(input_wd) - 1)}

\* tuple(input_tk[:-1]) + (input_tk[-1] + '</w>',)
InitialWordNoMarker(tk) == [i \in 1..Len(tk) |-> <<tk[i]>>]
InitialWord(tk) ==
    [i \in 1..Len(tk) |-> IF i < Len(tk) THEN <<tk[i]>> ELSE <<tk[i]>> \o EndOfWord]

\* self.bpe_ranks.get(p, float('inf')) < self.bpe_ranks.get(q, float('inf'))
RankLess(ranks, p, q) ==
    /\ p \in DOMAIN ranks
    /\ (q \in DOMAIN ranks => ranks[p] < ranks[q])

\* the pairs min(pairs, key=...) can return, whatever order the set is iterated
\* in: those no other pair has a smaller key than
MaxPairs(ranks, ps) ==
    {p \in ps : \A q \in ps : ~RankLess(ranks, p, q)}
AnyPair(ranks, ps) == ps
AnyRankedPair(ranks, ps) ==
    IF ps \cap DOMAIN ranks = {} THEN ps ELSE ps \cap DOMAIN ranks
MinPairs(ranks, ps) ==
    {p \in ps : \A q \in ps : ~RankLess(ranks, q, p)}

\* word.index(first, i): the first position >= i holding first, 0 for ValueError
IndexFrom(w, first, i) ==
    IF \E j \in i..Len(w) : w[j] = first
    THEN CHOOSE j \in i..Len(w) : w[j] = first /\ \A k \in i..(j - 1) : w[k] # first
    ELSE 0

\* the inner while loop, from position i (1-based) with new_word built so far
RECURSIVE MergeScan(_, _, _, _, _)
MergeScan(w, first, second, i, new_word) ==
    IF i > Len(w) THEN new_word
    ELSE LET j == IndexFrom(w, first, i)
         IN  IF j = 0 THEN new_word \o SubSeq(w, i, Len(w))
             ELSE LET copied == new_word \o SubSeq(w, i, j - 1)
                  IN  IF w[j] = first /\ j < Len(w) /\ w[j + 1] = second
                      THEN MergeScan(w, first, second, j + 2,
                                     Append(copied, first \o second))
                      ELSE MergeScan(w, first, second, j + 1, Append(copied, w[j]))

\* the inner loop resuming one position after a merge instead of two
RECURSIVE MergeScanOverlap(_, _, _, _, _)
MergeScanOverlap(w, first, second, i, new_word) ==
    IF i > Len(w) THEN new_word
    ELSE LET j == IndexFrom(w, first, i)
         IN  IF j = 0 THEN new_word \o SubSeq(w, i, Len(w))
             ELSE LET copied == new_word \o SubSeq(w, i, j - 1)
                  IN  IF w[j] = first /\ j < Len(w) /\ w[j + 1] = second
                      THEN MergeScanOverlap(w, first, second, j + 1,
                                            Append(copied, first \o second))
                      ELSE MergeScanOverlap(w, first, second, j + 1,
                                            Append(copied, w[j]))

\* the values of i (1-based) at line 119, each time the inner loop tests it, up
\* to the test or the break that ends the loop
RECURSIVE ScanIndexes(_, _, _, _)
ScanIndexes(w, first, second, i) ==
    IF i > Len(w) THEN <<i>>
    ELSE LET j == IndexFrom(w, first, i)
         IN  IF j = 0 THEN <<i>>
             ELSE IF w[j] = first /\ j < Len(w) /\ w[j + 1] = second
             THEN <<i>> \o ScanIndexes(w, first, second, j + 2)
             ELSE <<i>> \o ScanIndexes(w, first, second, j + 1)

\* the inner loop without line 125: the symbols after the last occurrence of
\* first are not copied
RECURSIVE MergeScanDropRest(_, _, _, _, _)
MergeScanDropRest(w, first, second, i, new_word) ==
    IF i > Len(w) THEN new_word
    ELSE LET j == IndexFrom(w, first, i)
         IN  IF j = 0 THEN new_word
             ELSE LET copied == new_word \o SubSeq(w, i, j - 1)
                  IN  IF w[j] = first /\ j < Len(w) /\ w[j + 1] = second
                      THEN MergeScanDropRest(w, first, second, j + 2,
                                             Append(copied, first \o second))
                      ELSE MergeScanDropRest(w, first, second, j + 1,
                                             Append(copied, w[j]))

\* one pass of the outer loop body: the word rewritten for the selected bigram
MergePassDropRest(w, bg) == MergeScanDropRest(w, bg[1], bg[2], 1, <<>>)
MergePassNothing(w, bg) == w
MergePassOverlap(w, bg) == MergeScanOverlap(w, bg[1], bg[2], 1, <<>>)
MergePass(w, bg) == MergeScan(w, bg[1], bg[2], 1, <<>>)

\* the whole loop run on the word w, for the calls made by _tokenize
RECURSIVE MergeLoop(_, _)
MergeLoop(ranks, w) ==
    LET bg == CHOOSE p \in MinPairs(ranks, get_pairs(w)) : TRUE
    IN  IF bg \notin DOMAIN ranks THEN w
        ELSE LET nw == MergePass(w, bg)
             IN  IF Len(nw) = 1 THEN nw ELSE MergeLoop(ranks, nw)

\* what tokenize_alg returns for tk when the cache is fd
AlgValue(ranks, fd, tk) ==
    IF tk \in DOMAIN fd THEN fd[tk]
    ELSE IF get_pairs(InitialWord(tk)) = {} THEN tk \o EndOfWord
    ELSE Join(MergeLoop(ranks, InitialWord(tk)), Space)

-----------------------------------------------------------------------------
(* Outcomes of a call.                                                     *)

\* the record of a finished call: what was called on what, how it ended, what it
\* returned; for tokenize_alg also whether the call was the second or a later one
\* on its token, whether it was answered from flag_dict, whether it ran the merge
\* loop, and the loop's last values; for tokenize the normalized text and the
\* tokens handed to tokenize_alg (cached and looped then speak of all of these
\* calls); for a call made on the result of the call before it, the text that
\* chain started from and its normalized form; scalar when val holds the one id
\* returned for a str; isnone when the argument of the call is None
Outcome(op, arg, status, val) ==
    [op |-> op, arg |-> arg, status |-> status, val |-> val,
     repeated |-> FALSE, cached |-> FALSE, looped |-> FALSE,
     iters |-> 0, bigram |-> <<>>, prev |-> <<>>, final |-> <<>>,
     chained |-> FALSE, src |-> <<>>, text |-> <<>>, raw |-> <<>>,
     scalar |-> FALSE, isnone |-> FALSE]

NoRet == Outcome("none", <<>>, "none", <<>>)

\* the first call on a token is the one remembered
Remember(fr, tk, val) ==
    IF tk \in DOMAIN fr THEN fr
    ELSE [t \in DOMAIN fr \cup {tk} |-> IF t = tk THEN val ELSE fr[t]]

\* d[k] = v
DictSetEvicting(d, k, v) ==
    [t \in DOMAIN InitFlagDict \cup {k} |-> IF t = k THEN v ELSE InitFlagDict[t]]
DictSetKey(d, k, v) == [t \in DOMAIN d \cup {k} |-> IF t = k THEN k ELSE d[t]]
DictSetOnly(d, k, v) == [t \in {k} |-> v]
DictSet(d, k, v) ==
    [t \in DOMAIN d \cup {k} |-> IF t = k THEN v ELSE d[t]]

-----------------------------------------------------------------------------
(* The state machine: one caller of tokenize_alg.                          *)

\* TempTokenizer.__init__ on the merge file lines
Construct(lines) ==
    /\ merges = MergeSlice(lines)
    /\ bpe_ranks = BuildRanks(MergeSlice(lines))
    /\ flag_dict = InitFlagDict

\* the concurrent callers
Threads == 1..NumThreads

\* a caller that has not called yet
IdleThread ==
    [pc |-> "idle", input_tk |-> <<>>, word |-> <<>>, cached |-> FALSE,
     status |-> "none", val |-> <<>>]

NoCall ==
    /\ pc = "idle"
    /\ input_tk = <<>>
    /\ word = <<>>
    /\ pairs = {}
    /\ bigram = <<>>
    /\ prev = <<>>
    /\ iters = 0

Init ==
    /\ \E lines \in BpeFiles : Construct(lines)
    /\ NoCall
    /\ ret = NoRet
    /\ first_ret = <<>>
    /\ calls = 0
    /\ threads = [t \in Threads |-> IdleThread]

\* tokenize_alg, lines 104-105: the token is in the cache
TokenizeAlgCached(tk) ==
    /\ pc = "idle" /\ calls < MaxCalls
    /\ tk \in DOMAIN flag_dict
    /\ ret' = [Outcome("tokenize_alg", tk, "ok", flag_dict[tk])
                 EXCEPT !.cached = TRUE, !.repeated = tk \in DOMAIN first_ret]
    /\ first_ret' = Remember(first_ret, tk, flag_dict[tk])
    /\ calls' = calls + 1
    /\ UNCHANGED <<tables, threads, flag_dict, pc, locals>>

\* tokenize_alg, line 106 on the empty token: input_tk[-1] raises IndexError
TokenizeAlgEmpty(tk) ==
    /\ pc = "idle" /\ calls < MaxCalls
    /\ tk \notin DOMAIN flag_dict
    /\ tk = <<>>
    /\ ret' = Outcome("tokenize_alg", tk, "IndexError", <<>>)
    /\ calls' = calls + 1
    /\ UNCHANGED <<tables, threads, flag_dict, pc, locals, first_ret>>

\* tokenize_alg, lines 106-110: a word of one symbol has no pairs
TokenizeAlgSingle(tk) ==
    /\ pc = "idle" /\ calls < MaxCalls
    /\ tk \notin DOMAIN flag_dict
    /\ tk # <<>>
    /\ get_pairs(InitialWord(tk)) = {}
    /\ ret' = [Outcome("tokenize_alg", tk, "ok", tk \o EndOfWord)
                 EXCEPT !.final = InitialWord(tk),
                        !.repeated = tk \in DOMAIN first_ret]
    /\ first_ret' = Remember(first_ret, tk, tk \o EndOfWord)
    /\ calls' = calls + 1
    /\ UNCHANGED <<tables, threads, flag_dict, pc, locals>>

\* tokenize_alg, lines 106-112: the call enters the merge loop
TokenizeAlgStart(tk) ==
    /\ pc = "idle" /\ calls < MaxCalls
    /\ tk \notin DOMAIN flag_dict
    /\ tk # <<>>
    /\ get_pairs(InitialWord(tk)) # {}
    /\ input_tk' = tk
    /\ word' = InitialWord(tk)
    /\ pairs' = get_pairs(InitialWord(tk))
    /\ bigram' = <<>>
    /\ prev' = <<>>
    /\ iters' = 0
    /\ pc' = "loop"
    /\ calls' = calls + 1
    /\ UNCHANGED <<tables, threads, flag_dict, ret, first_ret>>

\* lines 139-141, the loop left with the word w after n passes, the last one
\* having rewritten pw for the bigram bg; the locals die with the call
Finish(w, n, bg, pw) ==
    /\ flag_dict' = DictSet(flag_dict, input_tk, Join(w, Space))
    /\ ret' = [Outcome("tokenize_alg", input_tk, "ok", Join(w, Space))
                 EXCEPT !.looped = TRUE, !.final = w, !.iters = n,
                        !.bigram = bg, !.prev = pw,
                        !.repeated = input_tk \in DOMAIN first_ret]
    /\ first_ret' = Remember(first_ret, input_tk, Join(w, Space))
    /\ pc' = "idle"
    /\ input_tk' = <<>>
    /\ word' = <<>>
    /\ pairs' = {}
    /\ bigram' = <<>>
    /\ prev' = <<>>
    /\ iters' = 0

\* lines 113-115 and 139-141: the selected bigram is not ranked, the loop ends
MergeBreak ==
    /\ pc = "loop"
    /\ \E bg \in MinPairs(bpe_ranks, pairs) :
          /\ bg \notin DOMAIN bpe_ranks
          /\ Finish(word, iters, bg, prev)
    /\ UNCHANGED <<tables, threads, calls>>

\* lines 113-138: one merge pass that leaves more than one symbol
MergeStep ==
    /\ pc = "loop"
    /\ \E bg \in MinPairs(bpe_ranks, pairs) :
          /\ bg \in DOMAIN bpe_ranks
          /\ Len(MergePass(word, bg)) # 1
          /\ bigram' = bg
          /\ prev' = word
          /\ word' = MergePass(word, bg)
          /\ pairs' = get_pairs(MergePass(word, bg))
    /\ iters' = iters + 1
    /\ UNCHANGED <<tables, threads, flag_dict, pc, input_tk, ret, first_ret, calls>>

\* lines 113-141: the merge pass that leaves one symbol, which ends the loop
MergeLast ==
    /\ pc = "loop"
    /\ \E bg \in MinPairs(bpe_ranks, pairs) :
          /\ bg \in DOMAIN bpe_ranks
          /\ Len(MergePass(word, bg)) = 1
          /\ Finish(MergePass(word, bg), iters + 1, bg, word)
    /\ UNCHANGED <<tables, threads, calls>>

Next ==
    \/ \E tk \in Tokens : TokenizeAlgCached(tk)
    \/ \E tk \in Tokens : TokenizeAlgEmpty(tk)
    \/ \E tk \in Tokens : TokenizeAlgSingle(tk)
    \/ \E tk \in Tokens : TokenizeAlgStart(tk)
    \/ MergeBreak
    \/ MergeStep
    \/ MergeLast

Spec == Init /\ [][Next]_vars

\* a call that is inside the merge loop keeps running: the interpreter goes on
\* with the next iteration
SpecFair == Spec /\ WF_vars(MergeBreak \/ MergeStep \/ MergeLast)

\* the same caller on a tokenizer built from the long file
InitBig ==
    /\ Construct(FileBig)
    /\ NoCall
    /\ ret = NoRet
    /\ first_ret = <<>>
    /\ calls = 0
    /\ threads = [t \in Threads |-> IdleThread]

SpecBig == InitBig /\ [][Next]_vars

-----------------------------------------------------------------------------
(* Characters and normalization.  The texts of the model are made of code  *)
(* points below 256.                                                       *)

\* c.isspace(), and \s of the pattern
IsSpace(c) == c \in (9..13) \cup (28..32) \cup {133, 160}

\* \p{L}
IsLetter(c) ==
    c \in (65..90) \cup (97..122) \cup {170, 181, 186}
          \cup (192..214) \cup (216..246) \cup (248..255)

\* \p{N}
IsDigit(c) == c \in (48..57) \cup {178, 179, 185, 188, 189, 190}

\* c.lower()
LowerChar(c) ==
    IF c \in 65..90 \/ (c \in 192..222 /\ c # 215) THEN c + 32 ELSE c

\* s.lower()
Lower(s) == [i \in 1..Len(s) |-> LowerChar(s[i])]

\* the characters of s at the positions of keep, in order
SubByIndex(s, keep) ==
    [k \in 1..Cardinality(keep) |->
        s[CHOOSE i \in keep : Cardinality({j \in keep : j < i}) = k - 1]]

\* s.strip()
Strip(s) ==
    LET solid == {i \in 1..Len(s) : ~IsSpace(s[i])}
    IN  IF solid = {} THEN <<>>
        ELSE SubSeq(s, CHOOSE i \in solid : \A j \in solid : i <= j,
                       CHOOSE i \in solid : \A j \in solid : i >= j)

\* whitespace_clean(input_text): every run of whitespace becomes one space
whitespace_clean(input_text) ==
    LET s == input_text
        keep == {i \in 1..Len(s) : ~IsSpace(s[i]) \/ i = 1 \/ ~IsSpace(s[i - 1])}
        one == [i \in 1..Len(s) |-> IF IsSpace(s[i]) THEN 32 ELSE s[i]]
    IN  Strip(SubByIndex(one, keep))

\* s[i:].startswith(p), for a 1-based i
StartsAt(s, i, p) ==
    /\ i + Len(p) - 1 <= Len(s)
    /\ SubSeq(s, i, i + Len(p) - 1) = p

\* the length of the longest run of characters of the class In that starts at i
RunLen(s, i, In(_)) ==
    LET stops == {j \in i..Len(s) : ~In(s[j])}
    IN  IF stops = {} THEN Len(s) - i + 1
        ELSE (CHOOSE j \in stops : \A k \in stops : j <= k) - i

\* the entries of html.entities.html5 the texts of the model can hold: amp, lt and
\* gt, each with and without the semicolon
Html5 ==
    LET amp == <<97, 109, 112>>
        lt == <<108, 116>>
        gt == <<103, 116>>
    IN  [n \in {amp, amp \o <<59>>, lt, lt \o <<59>>, gt, gt \o <<59>>} |->
            IF n \in {amp, amp \o <<59>>} THEN 38
            ELSE IF n \in {lt, lt \o <<59>>} THEN 60 ELSE 62]

\* a character of a name in html.unescape's pattern: [^\t\n\f <&#;]
IsNameChar(c) == c \notin {9, 10, 12, 32, 60, 38, 35, 59}

\* html._replace_charref for a named reference s: the entry of s, else the entry
\* of its longest prefix of two or more characters followed by the rest, else s
\* behind its ampersand
ReplaceCharref(s) ==
    IF s \in DOMAIN Html5 THEN <<Html5[s]>>
    ELSE LET cuts == {x \in 2..(Len(s) - 1) : SubSeq(s, 1, x) \in DOMAIN Html5}
         IN  IF cuts = {} THEN <<38>> \o s
             ELSE LET x == CHOOSE c \in cuts : \A d \in cuts : c >= d
                  IN  <<Html5[SubSeq(s, 1, x)]>> \o SubSeq(s, x + 1, Len(s))

\* html.unescape(s) from position i: every '&' followed by a name of 1 to 32
\* characters and an optional semicolon is replaced, left to right
RECURSIVE UnescapeFrom(_, _, _)
UnescapeFrom(s, i, out) ==
    IF i > Len(s) THEN out
    ELSE IF s[i] # 38 THEN UnescapeFrom(s, i + 1, Append(out, s[i]))
    ELSE LET n == Min(RunLen(s, i + 1, IsNameChar), 32)
             semi == IF i + n + 1 <= Len(s) /\ s[i + n + 1] = 59 THEN 1 ELSE 0
         IN  IF n = 0 THEN UnescapeFrom(s, i + 1, Append(out, s[i]))
             ELSE UnescapeFrom(s, i + n + semi + 1,
                               out \o ReplaceCharref(SubSeq(s, i + 1, i + n + semi)))

\* html.unescape(s)
HtmlUnescape(s) == IF 38 \in Elems(s) THEN UnescapeFrom(s, 1, <<>>) ELSE s

\* a character of a name in ftfy's pattern &#?[0-9A-Za-z]{1,24};
IsAlnum(c) == c \in (48..57) \cup (65..90) \cup (97..122)

\* one pass of ftfy.fixes.unescape_html from position i: an '&', a name of 1 to 24
\* letters and digits and a semicolon are replaced when the name is an entity
RECURSIVE FtfyUnescapeFrom(_, _, _)
FtfyUnescapeFrom(s, i, out) ==
    IF i > Len(s) THEN out
    ELSE IF s[i] # 38 THEN FtfyUnescapeFrom(s, i + 1, Append(out, s[i]))
    ELSE LET run == Min(RunLen(s, i + 1, IsAlnum), 24)
             ends == {n \in 1..run : i + n + 1 <= Len(s) /\ s[i + n + 1] = 59}
         IN  IF ends = {} THEN FtfyUnescapeFrom(s, i + 1, Append(out, s[i]))
             ELSE LET n == CHOOSE e \in ends : \A d \in ends : e >= d
                      name == SubSeq(s, i + 1, i + n + 1)
                  IN  FtfyUnescapeFrom(s, i + n + 2,
                          out \o (IF name \in DOMAIN Html5 THEN <<Html5[name]>>
                                  ELSE SubSeq(s, i, i + n + 1)))

\* ftfy's fixing loop on one line: it unescapes entities, unless the line holds
\* a '<', until nothing changes; the other fixes leave the texts of the model as
\* they are
RECURSIVE FixSegment(_)
FixSegment(s) ==
    IF 60 \in Elems(s) THEN s
    ELSE LET fixed == FtfyUnescapeFrom(s, 1, <<>>)
         IN  IF fixed = s THEN s ELSE FixSegment(fixed)

\* ftfy.fix_text(input_text): the lines are fixed one by one
FixText(input_text) ==
    LET lines == Split(input_text, 10)
    IN  Join([k \in 1..Len(lines) |-> FixSegment(lines[k])], <<10>>)

\* basic_clean(input_text)
basic_clean(input_text) ==
    Strip(HtmlUnescape(HtmlUnescape(FixText(input_text))))

\* whitespace_clean(basic_clean(text)).lower()
Normalize(text) == Lower(whitespace_clean(basic_clean(text)))

-----------------------------------------------------------------------------
(* Pre-tokenization: re.findall(self.pat, content).                        *)

\* the literal alternatives of the pattern, in its order; the pattern is not
\* compiled with re.VERBOSE, so the line break and the indentation inside the
\* string belong to the alternative that ends in 've
Literals ==
    << StartOfText, EndOfText,
       <<39, 115>>, <<39, 116>>, <<39, 114, 101>>,
       <<10, 32, 32, 32, 32, 32, 32, 32, 32, 39, 118, 101>>,
       <<39, 109>>, <<39, 108, 108>>, <<39, 100>> >>

\* [^\s\p{L}\p{N}]
IsOther(c) == ~IsSpace(c) /\ ~IsLetter(c) /\ ~IsDigit(c)

\* the length of the match of the pattern at position i, 0 when there is none:
\* the first alternative that matches wins; re.IGNORECASE compares the literals
\* without case
MatchLen(s, i) ==
    LET lits == {k \in 1..Len(Literals) : StartsAt(Lower(s), i, Literals[k])}
    IN  IF lits # {} THEN Len(Literals[CHOOSE k \in lits : \A j \in lits : k <= j])
        ELSE IF IsLetter(s[i]) THEN RunLen(s, i, IsLetter)
        ELSE IF IsDigit(s[i]) THEN 1
        ELSE IF IsOther(s[i]) THEN RunLen(s, i, IsOther)
        ELSE 0

\* re.findall(self.pat, content) from position i
RECURSIVE FindFrom(_, _, _)
FindFrom(s, i, out) ==
    IF i > Len(s) THEN out
    ELSE LET n == MatchLen(s, i)
         IN  IF n = 0 THEN FindFrom(s, i + 1, out)
             ELSE FindFrom(s, i + n, Append(out, SubSeq(s, i, i + n - 1)))

\* re.findall(self.pat, content)
FindAll(content) == FindFrom(content, 1, <<>>)

-----------------------------------------------------------------------------
(* UTF-8 and the byte mapping.                                             *)

\* chr(c).encode('utf-8'), for a code point that is no surrogate
Utf8Char(c) ==
    IF c < 128 THEN <<c>>
    ELSE IF c < 2048 THEN <<192 + (c \div 64), 128 + (c % 64)>>
    ELSE IF c < 65536
         THEN <<224 + (c \div 4096), 128 + ((c \div 64) % 64), 128 + (c % 64)>>
    ELSE <<240 + (c \div 262144), 128 + ((c \div 4096) % 64),
           128 + ((c \div 64) % 64), 128 + (c % 64)>>

\* token.encode('utf-8')
Utf8Encode(token) == Concat([i \in 1..Len(token) |-> Utf8Char(token[i])])

\* ''.join(self.byte_encoder[b] for b in token.encode('utf-8'))
ByteMap(token) ==
    LET bs == Utf8Encode(token)
    IN  [i \in 1..Len(bs) |-> byte_encoder[bs[i]]]

\* U+FFFD, what errors="replace" puts for a malformed sequence
Replacement == 65533

\* the bytes that can follow the lead byte b as its second byte
SecondBytes(b) ==
    IF b = 224 THEN 160..191
    ELSE IF b = 237 THEN 128..159
    ELSE IF b = 240 THEN 144..191
    ELSE IF b = 244 THEN 128..143
    ELSE 128..191

\* the number of bytes of the sequence the lead byte b starts, 0 for a byte that
\* starts none
SeqLen(b) ==
    IF b < 128 THEN 1
    ELSE IF b \in 194..223 THEN 2
    ELSE IF b \in 224..239 THEN 3
    ELSE IF b \in 240..244 THEN 4
    ELSE 0

\* the number of bytes from position i that form the longest prefix of a well
\* formed sequence
GoodPrefix(bs, i) ==
    LET n == SeqLen(bs[i])
        ok(k) == /\ i + k <= Len(bs)
                 /\ bs[i + k] \in (IF k = 1 THEN SecondBytes(bs[i]) ELSE 128..191)
    IN  IF n = 0 THEN 0
        ELSE IF n = 1 \/ ~ok(1) THEN 1
        ELSE IF n = 2 \/ ~ok(2) THEN 2
        ELSE IF n = 3 \/ ~ok(3) THEN 3
        ELSE 4

\* the code point of the well formed sequence of n bytes at position i
CodePoint(bs, i, n) ==
    IF n = 1 THEN bs[i]
    ELSE IF n = 2 THEN (bs[i] - 192) * 64 + (bs[i + 1] - 128)
    ELSE IF n = 3
         THEN (bs[i] - 224) * 4096 + (bs[i + 1] - 128) * 64 + (bs[i + 2] - 128)
    ELSE (bs[i] - 240) * 262144 + (bs[i + 1] - 128) * 4096
         + (bs[i + 2] - 128) * 64 + (bs[i + 3] - 128)

\* bytearray(bs).decode('utf-8', errors="replace") from position i: a malformed
\* sequence gives one U+FFFD for its longest well formed prefix
RECURSIVE Utf8DecodeFrom(_, _, _)
Utf8DecodeFrom(bs, i, out) ==
    IF i > Len(bs) THEN out
    ELSE LET n == SeqLen(bs[i])
             g == GoodPrefix(bs, i)
         IN  IF n # 0 /\ g = n
             THEN Utf8DecodeFrom(bs, i + n, Append(out, CodePoint(bs, i, n)))
             ELSE Utf8DecodeFrom(bs, i + Max(g, 1), Append(out, Replacement))

\* bytearray(bs).decode('utf-8', errors="replace")
Utf8Decode(bs) == Utf8DecodeFrom(bs, 1, <<>>)

\* s.replace('</w>', ' ') from position i
RECURSIVE ReplaceFrom(_, _, _)
ReplaceFrom(s, i, out) ==
    IF i > Len(s) THEN out
    ELSE IF StartsAt(s, i, EndOfWord)
         THEN ReplaceFrom(s, i + Len(EndOfWord), out \o Space)
    ELSE ReplaceFrom(s, i + 1, Append(out, s[i]))

\* s.replace('</w>', ' ')
ReplaceEndOfWord(s) == ReplaceFrom(s, 1, <<>>)

-----------------------------------------------------------------------------
(* The calls of the tokenizer's interface, each one a whole call.          *)

\* the for loop of _tokenize from the i-th token; acc holds the cache, the
\* symbols put out, the tokens handed to tokenize_alg, whether every one of them
\* was answered from the cache and whether one of them went through the merge loop
RECURSIVE TokenizeLoop(_, _, _, _)
TokenizeLoop(ranks, toks, i, acc) ==
    IF i > Len(toks) THEN acc
    ELSE LET token == ByteMap(toks[i])
             hit == token \in DOMAIN acc.fd
             loop == ~hit /\ get_pairs(InitialWord(token)) # {}
             merged == AlgValue(ranks, acc.fd, token)
         IN  TokenizeLoop(ranks, toks, i + 1,
                 [fd |-> IF loop THEN DictSet(acc.fd, token, merged) ELSE acc.fd,
                  out |-> acc.out \o Split(merged, 32),
                  raw |-> Append(acc.raw, token),
                  cached |-> acc.cached /\ hit,
                  looped |-> acc.looped \/ loop])

\* texts handed to tokenize and encode
Texts ==
    { <<>>,
      ca,
      ca \o cb,
      ca \o <<44>> \o cb,                            \* 'a,b'
      <<32, 65, 98, 32, 32, 97, 10>>,                \* ' Ab  a\n'
      <<233>>,                                       \* 'é'
      ca \o <<38, 97, 109, 112, 59>> \o cb,          \* 'a&amp;b'
      StartOfText,
      EndOfText,
      <<60, 124, 69, 78, 68, 79, 70, 84, 69, 88, 84, 124, 62>> }   \* '<|ENDOFTEXT|>'

\* symbols and symbol lists handed to _convert_tokens_to_ids by a caller
Symbols == { <<>>, ca \o EndOfWord, ca \o cb \o EndOfWord, <<256>> }
SymbolLists ==
    { <<>>, <<ca, cb \o EndOfWord>>, <<ca \o cb \o EndOfWord, EndOfText>>,
      <<ca \o EndOfWord, ca \o cb \o EndOfWord>> }

\* id lists handed to decode by a caller: none, the id of 'a</w>' and the id of
\* the lead byte of a two-byte sequence, the largest id and the one after it
IdLists ==
    { <<>>,
      <<EncoderAt(ca \o EndOfWord), EncoderAt(<<195>>)>>,
      <<Len(vocab) - 1>>,
      <<Len(vocab)>> }

ApiIdle == pc = "idle" /\ calls < MaxApiCalls

\* a call that reads the tables and nothing else
AnswerClearingRanks(outcome) ==
    /\ ret' = outcome
    /\ calls' = calls + 1
    /\ bpe_ranks' = <<>>
    /\ UNCHANGED <<merges, threads, flag_dict, pc, locals, first_ret>>
Answer(outcome) ==
    /\ ret' = outcome
    /\ calls' = calls + 1
    /\ UNCHANGED <<tables, threads, flag_dict, pc, locals, first_ret>>

\* ClipTokenizer.tokenize(text) for a str: _tokenize(text)
Tokenize(text) ==
    /\ ApiIdle
    /\ LET content == Normalize(text)
           done == TokenizeLoop(bpe_ranks, FindAll(content), 1,
                                [fd |-> flag_dict, out |-> <<>>, raw |-> <<>>,
                                 cached |-> TRUE, looped |-> FALSE])
       IN  /\ flag_dict' = done.fd
           /\ ret' = [Outcome("tokenize", text, "ok", done.out)
                        EXCEPT !.src = text, !.text = content, !.raw = done.raw,
                               !.cached = done.cached, !.looped = done.looped]
    /\ calls' = calls + 1
    /\ UNCHANGED <<tables, threads, pc, locals, first_ret>>

\* ClipTokenizer.tokenize(text) for a text that is no str, here None
TokenizeNotStrAsStr == Tokenize(<<78, 111, 110, 101>>)
TokenizeNotStr ==
    /\ ApiIdle
    /\ Answer([Outcome("tokenize", "None", "ValueError", <<>>) EXCEPT !.isnone = TRUE])

\* T5Tokenizer.tokenize(text) for a text that is no str, here None: the same
\* test, on a tokenizer that has none of the tables of this one
T5TokenizeNotStr ==
    /\ ApiIdle
    /\ Answer([Outcome("t5_tokenize", "None", "ValueError", <<>>) EXCEPT !.isnone = TRUE])

\* TempTokenizer.encode(content): the text is normalized, then line 154 reads
\* self.pat, an attribute TempTokenizer never sets
Encode(content) ==
    /\ ApiIdle
    /\ Answer([Outcome("encode", content, "AttributeError", <<>>)
                 EXCEPT !.src = content, !.text = Normalize(content)])

\* [self.tool.encoder[bpe_token] for bpe_token in input_tokens]
ConvertListEmptyOk(input_tokens) ==
    IF \E i \in 1..Len(input_tokens) : ~InEncoder(input_tokens[i])
    THEN Outcome("convert", input_tokens, "KeyError", <<>>)
    ELSE Outcome("convert", input_tokens, "ok",
                 [i \in 1..Len(input_tokens) |-> EncoderAt(input_tokens[i])])
ConvertListSkipUnknown(input_tokens) ==
    IF input_tokens = <<>> THEN Outcome("convert", input_tokens, "ValueError", <<>>)
    ELSE LET known == SelectSeq(input_tokens, InEncoder)
         IN  Outcome("convert", input_tokens, "ok",
                     [i \in 1..Len(known) |-> EncoderAt(known[i])])
ConvertList(input_tokens) ==
    IF input_tokens = <<>> THEN Outcome("convert", input_tokens, "ValueError", <<>>)
    ELSE IF \E i \in 1..Len(input_tokens) : ~InEncoder(input_tokens[i])
    THEN Outcome("convert", input_tokens, "KeyError", <<>>)
    ELSE Outcome("convert", input_tokens, "ok",
                 [i \in 1..Len(input_tokens) |-> EncoderAt(input_tokens[i])])

\* _convert_tokens_to_ids(None)
ConvertTokensNone ==
    /\ ApiIdle
    /\ Answer([Outcome("convert", "None", "ValueError", <<>>) EXCEPT !.isnone = TRUE])

\* _convert_tokens_to_ids(input_tokens) for a str: the result is one id, held as
\* the only element of val
ConvertTokensStr(input_tokens) ==
    /\ ApiIdle
    /\ Answer([ (IF input_tokens = <<>>
                 THEN Outcome("convert", input_tokens, "ValueError", <<>>)
                 ELSE IF ~InEncoder(input_tokens)
                 THEN Outcome("convert", input_tokens, "KeyError", <<>>)
                 ELSE Outcome("convert", input_tokens, "ok", <<EncoderAt(input_tokens)>>))
                EXCEPT !.scalar = TRUE ])

\* _convert_tokens_to_ids(input_tokens) for a list
ConvertTokensList(input_tokens) ==
    /\ ApiIdle
    /\ Answer(ConvertList(input_tokens))

\* _convert_tokens_to_ids on the list the tokenize call before it returned
ConvertTokenized ==
    /\ ApiIdle
    /\ ret.op = "tokenize" /\ ret.status = "ok"
    /\ Answer([ConvertList(ret.val)
                 EXCEPT !.chained = TRUE, !.src = ret.src, !.text = ret.text])

\* the bytes decode makes of the ids, all of them keys of decoder
DecodedBytes(input_ids) ==
    LET output_text == Concat([i \in 1..Len(input_ids) |-> DecoderAt(input_ids[i])])
    IN  [i \in 1..Len(output_text) |-> byte_decoder[output_text[i]]]

\* TempTokenizer.decode(input_ids)
DecodeIdsStrict(input_ids) ==
    IF \E i \in 1..Len(input_ids) : ~InDecoder(input_ids[i])
    THEN Outcome("decode", input_ids, "KeyError", <<>>)
    ELSE IF Utf8Encode(Utf8Decode(DecodedBytes(input_ids))) # DecodedBytes(input_ids)
    THEN Outcome("decode", input_ids, "UnicodeDecodeError", <<>>)
    ELSE Outcome("decode", input_ids, "ok",
                 ReplaceEndOfWord(Utf8Decode(DecodedBytes(input_ids))))
DecodeIds(input_ids) ==
    IF \E i \in 1..Len(input_ids) : ~InDecoder(input_ids[i])
    THEN Outcome("decode", input_ids, "KeyError", <<>>)
    ELSE LET output_text == Concat([i \in 1..Len(input_ids) |-> DecoderAt(input_ids[i])])
         IN  IF \E i \in 1..Len(output_text) : output_text[i] \notin DOMAIN byte_decoder
             THEN Outcome("decode", input_ids, "KeyError", <<>>)
             ELSE Outcome("decode", input_ids, "ok",
                      ReplaceEndOfWord(Utf8Decode(
                          [i \in 1..Len(output_text) |-> byte_decoder[output_text[i]]])))

\* decode(input_ids) on a list of the caller
Decode(input_ids) ==
    /\ ApiIdle
    /\ Answer(DecodeIds(input_ids))

\* decode on the id list the _convert_tokens_to_ids call before it returned
DecodeConverted ==
    /\ ApiIdle
    /\ ret.op = "convert" /\ ret.status = "ok" /\ ~ret.scalar
    /\ Answer([DecodeIds(ret.val)
                 EXCEPT !.chained = ret.chained, !.src = ret.src, !.text = ret.text])

NextApi ==
    \/ \E text \in Texts : Tokenize(text)
    \/ TokenizeNotStr
    \/ T5TokenizeNotStr
    \/ \E content \in Texts : Encode(content)
    \/ ConvertTokensNone
    \/ \E input_tokens \in Symbols : ConvertTokensStr(input_tokens)
    \/ \E input_tokens \in SymbolLists : ConvertTokensList(input_tokens)
    \/ ConvertTokenized
    \/ \E input_ids \in IdLists : Decode(input_ids)
    \/ DecodeConverted

SpecApi == Init /\ [][NextApi]_vars

-----------------------------------------------------------------------------
(* decode as the first call made on a tokenizer, on lists of sample ids.   *)

\* the length of the id lists
MaxIds == 2

\* the ids of 'a</w>', of the lead byte and of the continuation byte of a
\* two-byte sequence, the id line 99 gave 'b' before any rule was read, the
\* largest id and the one after it
SampleIds ==
    { EncoderAt(ca \o EndOfWord), EncoderAt(<<195>>), EncoderAt(<<169>>),
      BaseEncoder[cb], Len(vocab) - 1, Len(vocab) }

SampleIdLists == UNION {[1..n -> SampleIds] : n \in 0..MaxIds}

\* decode(input_ids) before any other call
DecodeFirst(input_ids) ==
    /\ calls = 0
    /\ Decode(input_ids)

NextDecode == \E input_ids \in SampleIdLists : DecodeFirst(input_ids)

SpecDecode == Init /\ [][NextDecode]_vars

-----------------------------------------------------------------------------
(* tokenize as the first call, on texts with contractions.                 *)

\* the contraction suffixes: 's 't 're 've 'm 'll 'd
Contractions ==
    { <<39, 115>>, <<39, 116>>, <<39, 114, 101>>, <<39, 118, 101>>,
      <<39, 109>>, <<39, 108, 108>>, <<39, 100>> }

\* texts handed to tokenize: 'i' and 'I' followed by a suffix, in lower and in
\* upper case, and a suffix between two words
ContractionTexts ==
    {<<105>> \o c : c \in Contractions}
    \cup {<<73>> \o [i \in 1..Len(c) |-> IF IsLetter(c[i]) THEN c[i] - 32 ELSE c[i]]
              : c \in Contractions}
    \cup {ca \o c \o <<32>> \o cb : c \in Contractions}

\* the first call on this tokenizer is tokenize(text)
TokenizeFirst(text) == calls = 0 /\ Tokenize(text)

NextPretokenize == \E text \in ContractionTexts : TokenizeFirst(text)

SpecPretokenize == Init /\ [][NextPretokenize]_vars

-----------------------------------------------------------------------------
(* _convert_tokens_to_ids as the first call, of ClipTokenizer and of       *)
(* T5Tokenizer.  The ids of T5Tokenizer come from the sentencepiece model, *)
(* which gives every piece some id: any id of PieceIds.                    *)

MaxPieceId == 1
PieceIds == 0..MaxPieceId

\* symbols and symbol lists handed to _convert_tokens_to_ids
MaxSymbols == 2
ConvertSymbols == Symbols \cup {EndOfText}
ConvertLists == UNION {[1..n -> ConvertSymbols \ {<<>>}] : n \in 0..MaxSymbols}

\* T5Tokenizer._convert_tokens_to_ids(None)
T5ConvertTokensNone ==
    /\ ApiIdle
    /\ Answer([Outcome("t5_convert", "None", "ValueError", <<>>) EXCEPT !.isnone = TRUE])

\* T5Tokenizer._convert_tokens_to_ids(input_tokens) for a str
T5ConvertTokensStr(input_tokens) ==
    /\ ApiIdle
    /\ \E id \in PieceIds :
          Answer([ (IF input_tokens = <<>>
                    THEN Outcome("t5_convert", input_tokens, "ValueError", <<>>)
                    ELSE Outcome("t5_convert", input_tokens, "ok", <<id>>))
                   EXCEPT !.scalar = TRUE ])

\* T5Tokenizer._convert_tokens_to_ids(input_tokens) for a list
T5ConvertTokensList(input_tokens) ==
    /\ ApiIdle
    /\ \E res \in [1..Len(input_tokens) -> PieceIds] :
          Answer(IF input_tokens = <<>>
                 THEN Outcome("t5_convert", input_tokens, "ValueError", <<>>)
                 ELSE Outcome("t5_convert", input_tokens, "ok", res))

NextConvert ==
    \/ calls = 0 /\ ConvertTokensNone
    \/ \E input_tokens \in ConvertSymbols : calls = 0 /\ ConvertTokensStr(input_tokens)
    \/ \E input_tokens \in ConvertLists : calls = 0 /\ ConvertTokensList(input_tokens)
    \/ calls = 0 /\ T5ConvertTokensNone
    \/ \E input_tokens \in ConvertSymbols : calls = 0 /\ T5ConvertTokensStr(input_tokens)
    \/ \E input_tokens \in ConvertLists : calls = 0 /\ T5ConvertTokensList(input_tokens)

SpecConvert == Init /\ [][NextConvert]_vars

-----------------------------------------------------------------------------
(* build_inputs_with_special_tokens as the first call.  The ids of the     *)
(* special tokens are properties of PretrainedTokenizer: the id the        *)
(* tokenizer gives to bos_token and to eos_token.                          *)

bos_token_id == EncoderAt(StartOfText)
eos_token_id == EncoderAt(EndOfText)

\* lists handed in as token_ids_1
PairLists == {<<>>, <<BaseEncoder[cb]>>}

\* lines 191-198 for a token_ids_1 that is true (a list that is not empty) or
\* not (None, an empty list): src is token_ids_0 before the call and arg is
\* token_ids_0 after it
BuildInputsAliased(token_ids_0, token_ids_1, given) ==
    LET res == <<bos_token_id>> \o token_ids_0 \o <<eos_token_id>>
    IN  [ (IF token_ids_1 # <<>> \/ token_ids_0 = <<>>
           THEN Outcome("build", token_ids_0, "ValueError", <<>>)
           ELSE Outcome("build", res, "ok", res))
          EXCEPT !.src = token_ids_0, !.raw = token_ids_1, !.isnone = ~given ]
BuildInputs(token_ids_0, token_ids_1, given) ==
    [ (IF token_ids_1 # <<>> \/ token_ids_0 = <<>>
       THEN Outcome("build", token_ids_0, "ValueError", <<>>)
       ELSE Outcome("build", token_ids_0, "ok",
                    <<bos_token_id>> \o token_ids_0 \o <<eos_token_id>>))
      EXCEPT !.src = token_ids_0, !.raw = token_ids_1, !.isnone = ~given ]

\* build_inputs_with_special_tokens(token_ids_0)
BuildInputsOne(token_ids_0) ==
    /\ ApiIdle
    /\ Answer(BuildInputs(token_ids_0, <<>>, FALSE))

\* build_inputs_with_special_tokens(token_ids_0, token_ids_1)
BuildInputsTwo(token_ids_0, token_ids_1) ==
    /\ ApiIdle
    /\ Answer(BuildInputs(token_ids_0, token_ids_1, TRUE))

NextBuild ==
    \/ \E token_ids_0 \in SampleIdLists : calls = 0 /\ BuildInputsOne(token_ids_0)
    \/ \E token_ids_0 \in SampleIdLists, token_ids_1 \in PairLists :
          calls = 0 /\ BuildInputsTwo(token_ids_0, token_ids_1)

SpecBuild == Init /\ [][NextBuild]_vars

-----------------------------------------------------------------------------
(* BertTokenizer called on a sentence, with or without a text_pair, as the *)
(* tests of test_tokenizer.py expect it.  A sentence is the list of its    *)
(* words; the vocabulary is the one the tests write.                       *)

BertVocab ==
    <<"[PAD]", "[unused1]", "[UNK]", "[CLS]", "[SEP]", "[MASK]", "hello", "world", "!">>

\* the id of a word or special token: its line in the vocabulary file, from 0
BertId(token) == (CHOOSE i \in 1..Len(BertVocab) : BertVocab[i] = token) - 1

\* the sentences handed to the tokenizer
MaxWords == 3
BertWords == {"hello", "world", "!"}
BertTexts == UNION {[1..n -> BertWords] : n \in 0..MaxWords}

\* n times the value v
Repeat(n, v) == [i \in 1..n |-> v]

\* the ids of the words of a sentence
BertIds(text) == [i \in 1..Len(text) |-> BertId(text[i])]

\* the three lists of the result
BertEncodeAllZero(text, text_pair, paired) ==
    LET ids == <<BertId("[CLS]")>> \o BertIds(text) \o <<BertId("[SEP]")>>
               \o (IF paired THEN BertIds(text_pair) ELSE <<>>)
    IN  [input_ids |-> ids,
         attention_mask |-> Repeat(Len(ids), 1),
         token_type_ids |-> Repeat(Len(ids), 0)]
BertEncode(text, text_pair, paired) ==
    LET ids == <<BertId("[CLS]")>> \o BertIds(text) \o <<BertId("[SEP]")>>
               \o (IF paired THEN BertIds(text_pair) ELSE <<>>)
    IN  [input_ids |-> ids,
         attention_mask |-> Repeat(Len(ids), 1),
         token_type_ids |->
             IF paired
             THEN Repeat(Len(text) + 1, 0) \o Repeat(Len(text_pair) + 1, 1)
             ELSE Repeat(Len(ids), 0)]

\* bert_tokenizer(text)
BertCall(text) ==
    /\ ApiIdle
    /\ Answer([Outcome("bert", text, "ok", BertEncode(text, <<>>, FALSE))
                 EXCEPT !.src = text, !.isnone = TRUE])

\* bert_tokenizer(text, text_pair=text_pair)
BertCallPair(text, text_pair) ==
    /\ ApiIdle
    /\ Answer([Outcome("bert", text, "ok", BertEncode(text, text_pair, TRUE))
                 EXCEPT !.src = text, !.raw = text_pair])

NextBert ==
    \/ \E text \in BertTexts : calls = 0 /\ BertCall(text)
    \/ \E text \in BertTexts, text_pair \in BertTexts :
          calls = 0 /\ BertCallPair(text, text_pair)

SpecBert == Init /\ [][NextBert]_vars

-----------------------------------------------------------------------------
(* Normalization, applied to a text and then to its own result.            *)

\* the number of pieces a text of the normalization runs is made of
MaxPieces == 3

\* '&', 'amp', ';', 'lt', '<', ' ', a line break and 'A'
Pieces ==
    { <<38>>, <<97, 109, 112>>, <<59>>, <<108, 116>>, <<60>>, <<32>>, <<10>>, <<65>> }

\* texts with references nested deeper than the pieces reach
NestedTexts ==
    { <<38, 97, 109, 112, 97, 109, 112, 97, 109, 112>>,                  \* '&ampampamp'
      <<60, 38, 97, 109, 112, 59, 97, 109, 112, 59, 108, 116, 59>>,      \* '<&amp;amp;lt;'
      <<97, 38, 97, 109, 112, 59, 97, 109, 112, 59, 108, 116, 59, 98>> } \* 'a&amp;amp;lt;b'

\* the texts normalized: every concatenation of at most MaxPieces pieces, and
\* the nested ones
NormalizeTexts ==
    {Concat(ps) : ps \in UNION {[1..n -> Pieces] : n \in 0..MaxPieces}}
    \cup NestedTexts

\* whitespace_clean(basic_clean(text)).lower() on a text of the caller
NormalizeText(text) ==
    /\ pc = "idle" /\ ret = NoRet
    /\ ret' = [Outcome("normalize", text, "ok", Normalize(text)) EXCEPT !.src = text]
    /\ UNCHANGED <<tables, threads, flag_dict, pc, locals, first_ret, calls>>

\* the same on the text the normalization before it returned
NormalizeAgain ==
    /\ pc = "idle"
    /\ ret.op = "normalize" /\ ~ret.chained
    /\ ret' = [Outcome("normalize", ret.val, "ok", Normalize(ret.val))
                 EXCEPT !.chained = TRUE, !.src = ret.src]
    /\ UNCHANGED <<tables, threads, flag_dict, pc, locals, first_ret, calls>>

NextNormalize ==
    \/ \E text \in NormalizeTexts : NormalizeText(text)
    \/ NormalizeAgain

SpecNormalize == Init /\ [][NextNormalize]_vars

-----------------------------------------------------------------------------
(* The byte tables, looked up one key at a time.                           *)

\* self.byte_encoder[b], as lines 155 and 183 read it
ByteEncode(b) ==
    /\ pc = "idle"
    /\ ret' = Outcome("byte_encoder", b, "ok", byte_encoder[b])
    /\ UNCHANGED <<tables, threads, flag_dict, pc, locals, first_ret, calls>>

\* self.byte_decoder[c], as line 146 reads it
ByteDecode(c) ==
    /\ pc = "idle"
    /\ ret' = IF c \in DOMAIN byte_decoder
              THEN Outcome("byte_decoder", c, "ok", byte_decoder[c])
              ELSE Outcome("byte_decoder", c, "KeyError", 0)
    /\ UNCHANGED <<tables, threads, flag_dict, pc, locals, first_ret, calls>>

\* the characters looked up: every image of the table and some more
Chars == 0..400

NextCodec ==
    \/ \E b \in 0..255 : ByteEncode(b)
    \/ \E c \in Chars : ByteDecode(c)

SpecCodec == Init /\ [][NextCodec]_vars

-----------------------------------------------------------------------------
(* Concurrent callers of tokenize_alg on one tokenizer.  A step is one     *)
(* access to flag_dict: the interpreter runs a dict operation as a whole,  *)
(* and a caller can be preempted between any two of them.  The merge loop  *)
(* touches the caller's locals and reads bpe_ranks, which nothing writes,  *)
(* so it is one step.  Each caller makes one call.                         *)

\* the tokens the concurrent callers pass: two of two characters, one of one
\* character and a special token
ThreadTokens == { ca \o cb, cb \o ca, ca, EndOfText }

\* the caller t moves to the record next
ThreadMoves(t, next) ==
    /\ threads' = [threads EXCEPT ![t] = next]
    /\ UNCHANGED <<tables, pc, locals, ret, first_ret, calls>>

\* tokenize_alg(input_tk) is entered
ThreadCall(t, tk) ==
    /\ threads[t].pc = "idle" /\ threads[t].status = "none"
    /\ ThreadMoves(t, [threads[t] EXCEPT !.pc = "test", !.input_tk = tk])
    /\ UNCHANGED flag_dict

\* line 104: input_tk in self.flag_dict
ThreadTest(t) ==
    /\ threads[t].pc = "test"
    /\ ThreadMoves(t, [threads[t] EXCEPT
            !.pc = IF threads[t].input_tk \in DOMAIN flag_dict
                   THEN "lookup" ELSE "merge"])
    /\ UNCHANGED flag_dict

\* line 105: return self.flag_dict[input_tk]
ThreadLookup(t) ==
    /\ threads[t].pc = "lookup"
    /\ ThreadMoves(t,
           IF threads[t].input_tk \in DOMAIN flag_dict
           THEN [threads[t] EXCEPT !.pc = "done", !.status = "ok", !.cached = TRUE,
                                   !.val = flag_dict[threads[t].input_tk]]
           ELSE [threads[t] EXCEPT !.pc = "done", !.status = "KeyError"])
    /\ UNCHANGED flag_dict

\* lines 106-139: the word is built and merged; a word of one symbol returns at
\* line 110
ThreadMerge(t) ==
    /\ threads[t].pc = "merge"
    /\ LET tk == threads[t].input_tk
       IN  ThreadMoves(t,
               IF get_pairs(InitialWord(tk)) = {}
               THEN [threads[t] EXCEPT !.pc = "done", !.status = "ok",
                                       !.val = tk \o EndOfWord]
               ELSE [threads[t] EXCEPT !.pc = "write",
                         !.word = Join(MergeLoop(bpe_ranks, InitialWord(tk)), Space)])
    /\ UNCHANGED flag_dict

\* lines 140-141: self.flag_dict[input_tk] = word; return word
ThreadWrite(t) ==
    /\ threads[t].pc = "write"
    /\ flag_dict' = DictSet(flag_dict, threads[t].input_tk, threads[t].word)
    /\ ThreadMoves(t, [threads[t] EXCEPT !.pc = "done", !.status = "ok",
                                         !.val = threads[t].word])

NextThreads ==
    \/ \E t \in Threads, tk \in ThreadTokens : ThreadCall(t, tk)
    \/ \E t \in Threads : ThreadTest(t)
    \/ \E t \in Threads : ThreadLookup(t)
    \/ \E t \in Threads : ThreadMerge(t)
    \/ \E t \in Threads : ThreadWrite(t)

SpecThreads == Init /\ [][NextThreads]_vars

-----------------------------------------------------------------------------
(* Properties.                                                             *)

SpecialTokens == {StartOfText, EndOfText}

\* the last call was tokenize_alg and it returned a string
AlgReturned == ret.op = "tokenize_alg" /\ ret.status = "ok"

Ranked(p) == p \in DOMAIN bpe_ranks

\* bg is the pair of the word w with the smallest rank
Selected(w, bg) ==
    /\ bg \in get_pairs(w)
    /\ Ranked(bg)
    /\ \A q \in get_pairs(w) : Ranked(q) => bpe_ranks[bg] <= bpe_ranks[q]

\* C1: the byte-to-unicode table has the 256 keys 0..255 and 256 distinct images,
\* and byte_decoder[byte_encoder[b]] = b for every byte b: looking up the image
\* of a byte in byte_decoder gives the byte back, and a character byte_decoder
\* knows is the image of the byte it gives.
C1_ByteTableBijective ==
    /\ DOMAIN byte_encoder = 0..255
    /\ Cardinality({byte_encoder[b] : b \in 0..255}) = 256
    /\ ret.op = "byte_encoder" =>
          /\ ret.val \in DOMAIN byte_decoder
          /\ byte_decoder[ret.val] = ret.arg
    /\ (ret.op = "byte_decoder" /\ ret.status = "ok") =>
          /\ ret.val \in 0..255
          /\ byte_encoder[ret.val] = ret.arg

\* the space, a byte outside the printable ranges, was looked up and its image
\* is not the space
C1_Witness ==
    /\ ret.op = "byte_encoder" /\ ret.arg = 32
    /\ ret.val = 288

RanksLoW == BuildRanks(MergeSlice(FileLoW))
RanksLoWEnd == BuildRanks(MergeSlice(FileLoWEnd))
TokenLow == cl \o co \o cw

\* C3 as stated: with the merges (l,o), (lo,w) the token "low" goes from
\* (l, o, w</w>) to (lo, w</w>) and then to the single symbol "low</w>".
C3_LowMergedToOneSymbol ==
    /\ (bpe_ranks = RanksLoW /\ pc = "loop" /\ input_tk = TokenLow) =>
          \/ iters = 0 /\ word = <<cl, co, cw \o EndOfWord>>
          \/ iters = 1 /\ bigram = <<cl, co>> /\ word = <<cl \o co, cw \o EndOfWord>>
    /\ (bpe_ranks = RanksLoW /\ AlgReturned /\ ret.arg = TokenLow) =>
          ret.val = TokenLow \o EndOfWord

\* C3, amended: with the merges (l,o), (lo,w) the token "low" goes from
\* (l, o, w</w>) to (lo, w</w>) and is returned as the two symbols "lo w</w>",
\* after one merge pass; it becomes the single symbol "low</w>", after two passes,
\* when the second rule is (lo, w</w>).
C3_LowStopsAtMarker ==
    /\ (bpe_ranks \in {RanksLoW, RanksLoWEnd} /\ pc = "loop" /\ input_tk = TokenLow) =>
          \/ iters = 0 /\ word = <<cl, co, cw \o EndOfWord>>
          \/ iters = 1 /\ bigram = <<cl, co>> /\ word = <<cl \o co, cw \o EndOfWord>>
    /\ (bpe_ranks = RanksLoW /\ AlgReturned /\ ret.arg = TokenLow) =>
          /\ ret.val = cl \o co \o Space \o cw \o EndOfWord
          /\ ret.looped => ret.iters = 1 /\ ret.final = <<cl \o co, cw \o EndOfWord>>
    /\ (bpe_ranks = RanksLoWEnd /\ AlgReturned /\ ret.arg = TokenLow) =>
          /\ ret.val = TokenLow \o EndOfWord
          /\ ret.looped => ret.iters = 2 /\ ret.bigram = <<cl \o co, cw \o EndOfWord>>

\* "low" was merged under the rules (l,o), (lo,w) and the call has returned
C3_Witness ==
    /\ bpe_ranks = RanksLoW
    /\ AlgReturned /\ ret.arg = TokenLow /\ ret.looped /\ ret.iters = 1

\* C4: a ranked pair (x, y) never matches the adjacent pair (x, y</w>): a token
\* "xy" whose pair (x, y) is ranked while (x, y</w>) is not is returned unmerged
\* as "x y</w>"; with the table {(a,b): 0} the token "ab" gives "a b</w>", and
\* the word (a, b) without the marker merges to (ab).
C4_MarkedSymbolIsDistinct ==
    /\ \A x, y \in Alphabet :
          ( /\ AlgReturned /\ ret.arg = <<x, y>>
            /\ Ranked(<<<<x>>, <<y>>>>)
            /\ ~Ranked(<<<<x>>, <<y>> \o EndOfWord>>) )
          => /\ ret.val = <<x>> \o Space \o <<y>> \o EndOfWord
             /\ ret.looped => ret.iters = 0 /\ ret.final = <<<<x>>, <<y>> \o EndOfWord>>
    /\ bpe_ranks = BuildRanks(MergeSlice(FileAB)) =>
          /\ (AlgReturned /\ ret.arg = ca \o cb) => ret.val = ca \o Space \o cb \o EndOfWord
          /\ MergeLoop(bpe_ranks, <<ca, cb>>) = <<ca \o cb>>

\* "ab" went through the merge loop under the table {(a,b): 0}
C4_Witness ==
    /\ bpe_ranks = BuildRanks(MergeSlice(FileAB))
    /\ AlgReturned /\ ret.arg = ca \o cb /\ ret.looped

\* C5: what tokenize_alg returns for a token that is not a special token is a
\* fixpoint of merging: one symbol, or symbols none of whose adjacent pairs is
\* a key of bpe_ranks.
C5_ReturnIsFixpoint ==
    (AlgReturned /\ ret.arg \notin SpecialTokens) =>
        LET w == Split(ret.val, 32)
        IN  /\ Len(w) = 1 \/ \A p \in get_pairs(w) : ~Ranked(p)
            /\ ~ret.cached => ret.final = w

\* a call returned several symbols after at least one merge pass
C5_Witness ==
    /\ AlgReturned /\ ret.looped
    /\ ret.iters >= 1 /\ Len(ret.final) >= 2

\* C6: the pair merged in an iteration is the adjacent pair of the current word
\* with the smallest rank; a pair that is not in bpe_ranks is never merged, and
\* the loop ends as soon as the selected pair is not in bpe_ranks, which is when
\* no adjacent pair of the word is.
C6_SmallestRankMerged ==
    /\ (pc = "loop" /\ iters > 0) =>
          Selected(prev, bigram) /\ word = MergePass(prev, bigram)
    /\ (AlgReturned /\ ret.looped /\ Ranked(ret.bigram)) =>
          Selected(ret.prev, ret.bigram) /\ ret.final = MergePass(ret.prev, ret.bigram)
    /\ (AlgReturned /\ ret.looped /\ ~Ranked(ret.bigram)) =>
          /\ ret.bigram \in get_pairs(ret.final)
          /\ \A q \in get_pairs(ret.final) : ~Ranked(q)

\* a merge pass was made on a word with two ranked pairs
C6_Witness ==
    /\ pc = "loop" /\ iters > 0
    /\ \E q \in get_pairs(prev) : Ranked(q) /\ q # bigram

\* the positions of w where a merge of bg starts: an occurrence of the pair that
\* does not begin inside the occurrence merged just before
MergeStarts(w, bg) ==
    LET starts[i \in 0..Len(w)] ==
            IF i = 0 THEN FALSE
            ELSE /\ i < Len(w) /\ w[i] = bg[1] /\ w[i + 1] = bg[2]
                 /\ ~starts[i - 1]
    IN  {i \in 1..Len(w) : starts[i]}

\* the word with every occurrence that starts at one of those positions replaced
GreedyMerge(w, bg) ==
    LET starts == MergeStarts(w, bg)
        kept == {i \in 1..Len(w) : (i - 1) \notin starts}
        nth(k) == CHOOSE i \in kept : Cardinality({j \in kept : j < i}) = k - 1
    IN  [k \in 1..Cardinality(kept) |->
            IF nth(k) \in starts THEN bg[1] \o bg[2] ELSE w[nth(k)]]

\* C7: one merge pass replaces every non-overlapping occurrence of the selected
\* pair, scanning left to right and resuming two positions after a merge, and
\* copies every other symbol in order; (a, a, a) becomes (aa, a) for the pair
\* (a, a).
C7_PassIsGreedyLeftToRight ==
    /\ (pc = "loop" /\ iters > 0) => word = GreedyMerge(prev, bigram)
    /\ (AlgReturned /\ ret.looped /\ Ranked(ret.bigram)) =>
          ret.final = GreedyMerge(ret.prev, ret.bigram)
    /\ MergePass(<<ca, ca, ca>>, <<ca, ca>>) = <<ca \o ca, ca>>

\* the pass for (a, a) on (a, a, a, a</w>), where the occurrences overlap
C7_Witness ==
    /\ pc = "loop" /\ bigram = <<ca, ca>>
    /\ prev = <<ca, ca, ca, ca \o EndOfWord>>
    /\ word = <<ca \o ca, ca, ca \o EndOfWord>>

\* C8: what tokenize_alg returns depends on bpe_ranks and the token alone: it is
\* the same string for every order in which the set of pairs is iterated and
\* for every content of the cache.
C8_ResultIsFunctionOfInput ==
    AlgReturned => ret.val = AlgValue(bpe_ranks, InitFlagDict, ret.arg)

\* a call ended on a word with several unranked pairs, any of which min returns
C8_Witness ==
    /\ AlgReturned /\ ret.looped
    /\ Cardinality(MinPairs(bpe_ranks, get_pairs(ret.final))) >= 2

\* C9: a second call of tokenize_alg on a token is answered from flag_dict,
\* without the merge loop, with the string the first call returned; also for a
\* token of one character.
C9_SecondCallFromCache ==
    (AlgReturned /\ ret.repeated) =>
        /\ ret.cached /\ ~ret.looped
        /\ ret.val = first_ret[ret.arg]

-----------------------------------------------------------------------------
(* Properties of the interface calls.                                      *)

\* the last call was op and it returned
Returned(op) == ret.op = op /\ ret.status = "ok"

\* the ids the vocabulary reserves for the special tokens: the last two
ReservedId(token) ==
    IF token = EndOfText THEN Len(vocab) - 1 ELSE Len(vocab) - 2

\* C2: for a normalized text t, decoding the ids of the symbols t is tokenized
\* into gives t back exactly.
C2_RoundTripExact ==
    (ret.op = "decode" /\ ret.chained /\ ret.src = Normalize(ret.src)) =>
        /\ ret.status = "ok"
        /\ ret.val = ret.src

\* C10: the text "<|endoftext|>", and likewise "<|startoftext|>", is handed to
\* tokenize_alg as one token, answered from flag_dict verbatim without the merge
\* loop, and converted to exactly one id, the one the vocabulary reserves for
\* that token.
C10_SpecialTokenOneReservedId ==
    /\ (ret.op = "tokenize" /\ ret.status = "ok" /\ ret.text \in SpecialTokens) =>
          /\ ret.raw = <<ret.text>>
          /\ ret.val = <<ret.text>>
          /\ ret.cached /\ ~ret.looped
          /\ flag_dict[ret.text] = ret.text
    /\ (ret.op = "convert" /\ ret.chained /\ ret.text \in SpecialTokens) =>
          /\ ret.status = "ok"
          /\ ret.val = <<ReservedId(ret.text)>>
          /\ InDecoder(ReservedId(ret.text))
          /\ DecoderAt(ReservedId(ret.text)) = ret.text

\* "<|endoftext|>" was tokenized and its symbol list converted to the last id
C10_Witness ==
    /\ Returned("convert") /\ ret.chained
    /\ ret.src = EndOfText
    /\ ret.val = <<Len(vocab) - 1>>

-----------------------------------------------------------------------------
(* Errors, the vocabulary and the construction.                            *)

\* C11: a symbol that is no key of the encoder makes _convert_tokens_to_ids end
\* in KeyError with nothing returned; a call that returns gives one id per
\* symbol, in order, each the id of its symbol; encode returns no id list when
\* it ends in an error.
C11_UnknownSymbolIsAnError ==
    /\ (ret.op = "convert" /\ ret.status # "ValueError") =>
          LET toks == IF ret.scalar THEN <<ret.arg>> ELSE ret.arg
          IN  IF \A i \in 1..Len(toks) : InEncoder(toks[i])
              THEN /\ ret.status = "ok"
                   /\ Len(ret.val) = Len(toks)
                   /\ \A i \in 1..Len(toks) :
                         InDecoder(ret.val[i]) /\ DecoderAt(ret.val[i]) = toks[i]
              ELSE ret.status = "KeyError" /\ ret.val = <<>>
    /\ (ret.op = "encode" /\ ret.status # "ok") => ret.val = <<>>

\* a list whose first symbol is in the encoder and whose second is not was
\* converted
C11_Witness ==
    /\ ret.op = "convert" /\ ret.status = "KeyError" /\ ~ret.scalar
    /\ Len(ret.arg) = 2
    /\ InEncoder(ret.arg[1]) /\ ~InEncoder(ret.arg[2])

\* a character bytes_to_unicode gives to some byte
IsByteChar(c) == c \in DOMAIN byte_decoder

\* C12: every symbol tokenize_alg handles or returns for a token made of
\* byte-to-unicode characters is a key of the encoder: each such character, each
\* such character followed by '</w>', every symbol of the word during the merge
\* loop and every symbol of the returned string, the special tokens included.
C12_SymbolsAreInVocabulary ==
    /\ \A b \in 0..255 :
          /\ InEncoder(<<byte_encoder[b]>>)
          /\ InEncoder(<<byte_encoder[b]>> \o EndOfWord)
    /\ InEncoder(StartOfText) /\ InEncoder(EndOfText)
    /\ (pc = "loop" /\ \A i \in 1..Len(input_tk) : IsByteChar(input_tk[i])) =>
          \A i \in 1..Len(word) : InEncoder(word[i])
    /\ (AlgReturned /\ \A i \in 1..Len(ret.arg) : IsByteChar(ret.arg[i])) =>
          LET w == Split(ret.val, 32)
          IN  \A i \in 1..Len(w) : InEncoder(w[i])

\* a call returned a symbol made by a merge, which the base vocabulary lacks
C12_Witness ==
    /\ AlgReturned /\ ret.looped /\ ret.iters >= 1
    /\ \E i \in 1..Len(ret.final) : ret.final[i] \notin DOMAIN BaseEncoder

\* C13: normalizing a normalized text gives the same text: the second
\* application of whitespace_clean(basic_clean(.)).lower() changes nothing.
C13_NormalizeIdempotent ==
    (ret.op = "normalize" /\ ret.chained) => ret.val = ret.arg

\* C14: decode returns a string for every list of ids that are keys of decoder;
\* bytes that are no well formed UTF-8 come back as replacement characters, and
\* what is returned is the decoded text with every '</w>' replaced by a space.
C14_DecodeIsTotal ==
    (ret.op = "decode" /\ \A i \in 1..Len(ret.arg) : InDecoder(ret.arg[i])) =>
        LET bs == DecodedBytes(ret.arg)
            decoded == Utf8Decode(bs)
        IN  /\ ret.status = "ok"
            /\ ret.val = ReplaceEndOfWord(decoded)
            /\ Utf8Encode(decoded) # bs => Replacement \in Elems(ret.val)

\* ids of decoder whose bytes start a two-byte sequence that is not continued
\* were decoded to a replacement character
C14_Witness ==
    /\ Returned("decode") /\ ret.arg # <<>>
    /\ Replacement \in Elems(ret.val)

\* C15: no step of a tokenize, tokenize_alg, encode, decode or
\* _convert_tokens_to_ids call changes the rules the vocabulary is built from
\* (so encoder and decoder stay as built), the pair-rank table or the byte
\* tables; the cache is the only attribute of the tokenizer a step writes.
C15_TablesAreReadOnly ==
    [][ /\ merges' = merges
        /\ vocab' = vocab
        /\ bpe_ranks' = bpe_ranks
        /\ byte_encoder' = byte_encoder
        /\ byte_decoder' = byte_decoder ]_vars

\* a text was tokenized, which wrote the cache, its symbols were converted and
\* the ids decoded
C15_Witness ==
    /\ Returned("decode") /\ ret.chained
    /\ DOMAIN flag_dict # DOMAIN InitFlagDict
    /\ bpe_ranks # <<>>

\* what a call of tokenize_alg on tk returns when no other call runs
Sequential(tk) == AlgValue(bpe_ranks, InitFlagDict, tk)

\* C16: whatever the interleaving of the callers' membership tests, lookups and
\* writes, every call returns the string a call running alone returns, a key
\* found by the membership test is still there at the lookup, and every key of
\* the cache holds the merge result of that key.
C16_RacesAreBenign ==
    /\ \A t \in Threads :
          /\ threads[t].pc = "done" =>
                /\ threads[t].status = "ok"
                /\ threads[t].val = Sequential(threads[t].input_tk)
          /\ threads[t].pc = "lookup" => threads[t].input_tk \in DOMAIN flag_dict
    /\ \A k \in DOMAIN flag_dict : flag_dict[k] = Sequential(k)

\* two callers computed and wrote the same key, neither was answered from the
\* cache
C16_Witness ==
    /\ \A t \in Threads : threads[t].pc = "done" /\ ~threads[t].cached
    /\ \A t \in Threads : threads[t].input_tk = ca \o cb
    /\ ca \o cb \in DOMAIN flag_dict

\* C17: every rule of the merge list has its position in the list as its rank,
\* counted from 0, whatever the list.
C17_RankIsPosition ==
    \A i \in 1..Len(merges) : bpe_ranks[merges[i]] = i - 1

\* C18: a tokenizer built from a file with enough rules, so that line 89 takes
\* its full 49152 - 256 - 2 of them, has a vocabulary of 49152 entries.
C18_VocabularyHas49152Entries ==
    Len(merges) = 49152 - 256 - 2 => Len(vocab) = 49152

\* sub occurs in s
Occurs(sub, s) == \E i \in 1..Len(s) : StartsAt(s, i, sub)

\* C19: a contraction suffix that occurs in the normalized text of a tokenize
\* call is one of the raw tokens of that call.
C19_ContractionIsOneRawToken ==
    Returned("tokenize") =>
        \A c \in Contractions : Occurs(c, ret.text) => c \in Elems(ret.raw)

\* C20: a step that is tokenize of ClipTokenizer or of T5Tokenizer on an
\* argument that is no str ends in ValueError with nothing returned, no text
\* normalized, no token handed to tokenize_alg and no merge done, and the cache
\* and the tables are after it what they were before it.
C20_NotStrIsRejectedFirst ==
    [][(TokenizeNotStr \/ T5TokenizeNotStr) =>
          /\ ret'.status = "ValueError"
          /\ ret'.val = <<>> /\ ret'.text = <<>> /\ ret'.raw = <<>>
          /\ ~ret'.looped
          /\ flag_dict' = flag_dict
          /\ merges' = merges /\ bpe_ranks' = bpe_ranks
          /\ vocab' = vocab /\ byte_encoder' = byte_encoder]_vars

\* tokenize was called on None after an earlier call had filled the cache
C20_Witness ==
    /\ ret.op = "tokenize" /\ ret.status = "ValueError"
    /\ DOMAIN flag_dict # DOMAIN InitFlagDict

-----------------------------------------------------------------------------
(* The front end, the byte table, termination and the cache.               *)

\* C21: _convert_tokens_to_ids of either tokenizer on None, on an empty str or
\* on an empty list ends in ValueError and returns nothing; on a list that is
\* not empty it never ends in ValueError, and when it returns it returns a list
\* with one id per token, for ClipTokenizer the id of the token at the same
\* position; on a str that is not empty it returns one id, not a list.
C21_ConvertRejectsEmptyInput ==
    ret.op \in {"convert", "t5_convert"} =>
        IF ret.isnone \/ ret.arg = <<>>
        THEN ret.status = "ValueError" /\ ret.val = <<>>
        ELSE /\ ret.status # "ValueError"
             /\ ret.status = "ok" =>
                   IF ret.scalar THEN Len(ret.val) = 1
                   ELSE /\ Len(ret.val) = Len(ret.arg)
                        /\ ret.op = "convert" =>
                              \A i \in 1..Len(ret.arg) : ret.val[i] = EncoderAt(ret.arg[i])

\* ClipTokenizer._convert_tokens_to_ids ended in ValueError on an empty list
C21_Witness ==
    /\ ret.op = "convert" /\ ret.status = "ValueError"
    /\ ~ret.isnone /\ ~ret.scalar /\ ret.arg = <<>>

\* C22: build_inputs_with_special_tokens on a token_ids_0 that is not empty,
\* with token_ids_1 left out (or empty), returns the id of bos_token, then the
\* ids of token_ids_0 in order, then the id of eos_token, and token_ids_0 is
\* after the call what it was before it; on an empty token_ids_0 or a
\* token_ids_1 that is not empty it ends in ValueError and returns nothing.
C22_SpecialTokensAreAddedAround ==
    ret.op = "build" =>
        /\ ret.arg = ret.src
        /\ IF ret.src # <<>> /\ ret.raw = <<>>
           THEN /\ ret.status = "ok"
                /\ Len(ret.val) = Len(ret.src) + 2
                /\ ret.val[1] = bos_token_id
                /\ ret.val[Len(ret.val)] = eos_token_id
                /\ SubSeq(ret.val, 2, Len(ret.val) - 1) = ret.src
           ELSE ret.status = "ValueError" /\ ret.val = <<>>

\* two ids were given with token_ids_1 left out
C22_Witness ==
    /\ ret.op = "build" /\ ret.status = "ok" /\ ret.isnone
    /\ Len(ret.src) = 2 /\ Len(ret.val) = 4

InPrintableRange(b) == b \in 33..126 \/ b \in 161..172 \/ b \in 174..255

\* the place of a byte among the other bytes, counted from 0 in increasing
\* order: 0..32, then 127..160, then 173
PlaceAmongOthers(b) ==
    IF b <= 32 THEN b
    ELSE IF b <= 160 THEN 33 + (b - 127)
    ELSE 33 + 34

\* C24: the table gives a byte of the three printable ranges the character
\* with the byte's value as code point, and the n-th of the other bytes, in
\* increasing order and counted from 0, the code point 256 + n.
C24_TableFollowsConstructionRule ==
    ret.op = "byte_encoder" =>
        /\ ret.val = byte_encoder[ret.arg]
        /\ IF InPrintableRange(ret.arg)
           THEN ret.val = ret.arg
           ELSE ret.val = 256 + PlaceAmongOthers(ret.arg)

\* byte 173 (the soft hyphen, between the two Latin-1 ranges) was looked up: it
\* is the last of the 68 other bytes
C24_Witness ==
    /\ ret.op = "byte_encoder" /\ ret.arg = 173
    /\ ret.val = 323

\* the inner scan of the word for the pair bg tests strictly larger and larger
\* indexes, none past the end of the word by more than one
ScanAdvances(w, bg) ==
    LET t == ScanIndexes(w, bg[1], bg[2], 1)
    IN  /\ \A k \in 1..(Len(t) - 1) : t[k] < t[k + 1]
        /\ t[Len(t)] <= Len(w) + 1

\* C25: in the merge loop the word has at least two symbols and the passes done
\* plus the symbols left are at most the characters of the token, so at most
\* n - 1 passes are done on a token of n characters, also when the call has
\* returned; a pass that stays in the loop leaves fewer symbols than it found;
\* the scan for any pair the loop can select advances its index each time
\* round; and a call that has entered the loop leaves it.
C25_MergeLoopIsBounded ==
    /\ (pc = "loop") ~> (pc = "idle")
    /\ [](pc = "loop" =>
            /\ Len(word) >= 2
            /\ iters + Len(word) <= Len(input_tk)
            /\ \A bg \in MinPairs(bpe_ranks, pairs) :
                  bg \in DOMAIN bpe_ranks => ScanAdvances(word, bg))
    /\ []((AlgReturned /\ ret.looped) => ret.iters <= Len(ret.arg) - 1)
    /\ [][(pc = "loop" /\ pc' = "loop") =>
             (word' # word => iters' = iters + 1 /\ Len(word') < Len(word))]_vars

\* one pass was done on a token of three characters or more and the loop goes on
C25_Witness ==
    /\ pc = "loop" /\ iters = 1
    /\ Len(input_tk) >= 3 /\ Len(word) = Len(input_tk) - 1

\* what ClipTokenizer.tokenize(text) followed by _convert_tokens_to_ids gives
\* in the state as it is
FrontEndIds(text) ==
    ConvertList(TokenizeLoop(bpe_ranks, FindAll(Normalize(text)), 1,
                             [fd |-> flag_dict, out |-> <<>>, raw |-> <<>>,
                              cached |-> TRUE, looped |-> FALSE]).out)

\* C26: TempTokenizer.encode(text) completes for every text, and its ids are the
\* ids the front end gives for the text.
C26_EncodeEqualsFrontEnd ==
    ret.op = "encode" =>
        /\ ret.status = "ok"
        /\ FrontEndIds(ret.arg).status = "ok" => ret.val = FrontEndIds(ret.arg).val

\* the string s ends with '</w>'
Marked(s) == Len(s) >= Len(EndOfWord) /\ SubSeq(s, Len(s) - Len(EndOfWord) + 1, Len(s)) = EndOfWord

\* the symbols of w, put together, are the token followed by '</w>', and the
\* last symbol of w is the only one that ends with '</w>'
SpellsToken(w, tk) ==
    /\ Concat(w) = tk \o EndOfWord
    /\ \A i \in 1..Len(w) : Marked(w[i]) <=> i = Len(w)

\* C27: the word of the merge loop spells the token followed by '</w>' before
\* and after every pass, and so does the word the loop is left with; only the
\* last symbol carries the '</w>'.
C27_WordSpellsToken ==
    /\ pc = "loop" => SpellsToken(word, input_tk)
    /\ (pc = "loop" /\ iters > 0) => Concat(prev) = Concat(word)
    /\ (AlgReturned /\ ret.looped) => SpellsToken(ret.final, ret.arg)

\* a call returned after two passes, the second of which made one symbol of
\* a word of two: the token followed by '</w>'
C27_Witness ==
    /\ AlgReturned /\ ret.looped /\ ret.iters = 2
    /\ Len(ret.prev) = 2 /\ ret.final = <<ret.arg \o EndOfWord>>

\* the symbols the merge loop, or the return before it, leaves for a token
FinalSymbols(tk) ==
    IF tk \in SpecialTokens THEN <<tk>>
    ELSE IF Len(tk) = 1 THEN <<tk \o EndOfWord>>
    ELSE MergeLoop(bpe_ranks, InitialWord(tk))

\* the symbols of all the tokens, in order
RECURSIVE AllFinalSymbols(_)
AllFinalSymbols(toks) ==
    IF toks = <<>> THEN <<>>
    ELSE FinalSymbols(Head(toks)) \o AllFinalSymbols(Tail(toks))

\* C28: bytes_to_unicode gives no byte the space; no token _tokenize hands to
\* tokenize_alg and no symbol made of it holds a space or is empty; and the
\* symbols _tokenize gets by splitting the returned strings at ' ' are the
\* symbols the merge loop ended with, as many and in the same order.
C28_SplitGivesTheSymbolsBack ==
    /\ \A b \in 0..255 : byte_encoder[b] # 32
    /\ Returned("tokenize") =>
          /\ \A i \in 1..Len(ret.raw) : 32 \notin Elems(ret.raw[i])
          /\ ret.val = AllFinalSymbols(ret.raw)
          /\ \A i \in 1..Len(ret.val) : ret.val[i] # <<>> /\ 32 \notin Elems(ret.val[i])

\* a text with spaces in it was tokenized into three symbols
C28_Witness ==
    /\ Returned("tokenize") /\ 32 \in Elems(ret.src)
    /\ Len(ret.raw) = 2 /\ Len(ret.val) = 3

\* what the merge loop computes for a token when nothing is cached
Computed(tk) == Join(MergeLoop(bpe_ranks, InitialWord(tk)), Space)

\* C29: after any calls of tokenize_alg every entry of flag_dict whose key is no
\* special token holds what the merge loop computes for the key from bpe_ranks
\* alone, and a call on a token of two characters or more returns that string,
\* whatever was processed before it: it is also what the first call on the
\* token returned.
C29_CacheEqualsFreshComputation ==
    /\ \A k \in DOMAIN flag_dict \ SpecialTokens :
          Len(k) >= 2 /\ flag_dict[k] = Computed(k)
    /\ (AlgReturned /\ ret.arg \notin SpecialTokens) =>
          /\ Len(ret.arg) >= 2 => ret.val = Computed(ret.arg)
          /\ ret.val = first_ret[ret.arg]

\* a call went through the merge loop while the cache held the result of a call
\* on another token
C29_Witness ==
    /\ AlgReturned /\ ret.looped
    /\ \E k \in DOMAIN flag_dict \ SpecialTokens : k # ret.arg

\* C30: no step removes a key of flag_dict or changes the value of a key that
\* is there, and '<|startoftext|>' and '<|endoftext|>' are keys in every state,
\* each with itself as value.
C30_CacheOnlyGrows ==
    /\ [](\A tk \in SpecialTokens : tk \in DOMAIN flag_dict /\ flag_dict[tk] = tk)
    /\ [][ /\ DOMAIN flag_dict \subseteq DOMAIN flag_dict'
           /\ \A k \in DOMAIN flag_dict : flag_dict'[k] = flag_dict[k] ]_vars

\* the cache holds the results of two calls next to the two special tokens, the
\* second call having left the entry of the first as it was
C30_Witness ==
    /\ Cardinality(DOMAIN flag_dict) = 4
    /\ AlgReturned /\ ret.looped /\ ~ret.repeated
====
